---- MODULE Spec2Model ----
(***************************************************************************)
(* policyeval: the rule evaluation engine.                                 *)
(*                                                                         *)
(* JSON values are tagged records, Python strings are TLA+ strings, rules  *)
(* are records carrying the dataclass fields, an EvaluationContext is a    *)
(* record of its input, strict mode, cache and metrics.  An exception is   *)
(* an outcome whose "raised" field names the exception class.              *)
(***************************************************************************)
EXTENDS Integers, Sequences, FiniteSets, TLC

VARIABLES
    factories,   \* RuleRegistry._factories: type name -> factory
    ctx,         \* an EvaluationContext handed to Rule.evaluate by a caller
    engine,      \* a PolicyEngine: its default strict mode (its registry is factories)
    ret,         \* what the last call returned or raised, until the caller drops it
    pc,          \* the caller's position: "idle" or "returned"
    loaded,      \* the caller's spec = load_policy(...): None, or the PolicySpec
                 \* with the mapping of the registry it was loaded on
    kept,        \* the caller's policy = engine.compile(spec): None, or the Policy with
                 \* the PolicySpec it was compiled from and the registry's mapping then
    default_registry,  \* registry._default_registry: None, or the RuleRegistry it refers to
    registries,  \* the RuleRegistry objects get_default_registry made: their _factories
    threads,     \* the frame of the call each thread is in
    shared_policy,  \* a compiled Policy the threads share: None until there is one
    contexts     \* the EvaluationContext objects of the evaluate calls under way

\* the state of the single caller, and the state threads share
sequential == <<factories, ctx, engine, ret, pc, loaded, kept>>
concurrent == <<default_registry, registries, threads, shared_policy, contexts>>

vars ==
    <<factories, ctx, engine, ret, pc, loaded, kept,
      default_registry, registries, threads, shared_policy, contexts>>

----------------------------------------------------------------------------
(* JSON values *)

None == [t |-> "none"]
JBool(b) == [t |-> "bool", b |-> b]
JInt(n) == [t |-> "int", n |-> n]
JStr(s) == [t |-> "str", s |-> s]
JList(items) == [t |-> "list", items |-> items]
JMap(m) == [t |-> "map", m |-> m]

EmptyDict == [k \in {} |-> None]

IsNumber(v) == v.t \in {"int", "bool"}
\* bool is a subclass of int: True == 1, False == 0
NumberOf(v) == IF v.t = "int" THEN v.n ELSE IF v.b THEN 1 ELSE 0

----------------------------------------------------------------------------
(* The strings of the model, in Python's ordering of str. *)

StrOrder == <<"", "  NO  ", "a", "admin", "b", "user">>

StrRank(s) == CHOOSE i \in 1..Len(StrOrder) : StrOrder[i] = s

\* x in y for two str: substring
IsSubstring(x, y) == x = "" \/ x = y \/ (x = "a" /\ y = "admin")

\* s.strip().lower()
StripLower(s) == IF s = "  NO  " THEN "no" ELSE s

----------------------------------------------------------------------------
(* utils.py *)

\* The text of each path string: maximal dot-free chunks and the dots.
PathText ==
    ("user.role" :> <<"user", ".", "role">>) @@
    ("user.age" :> <<"user", ".", "age">>) @@
    ("user.active" :> <<"user", ".", "active">>) @@
    ("user..tags.-1" :> <<"user", ".", ".", "tags", ".", "-1">>) @@
    (".user.tags.2" :> <<".", "user", ".", "tags", ".", "2">>) @@
    ("user.tags.x" :> <<"user", ".", "tags", ".", "x">>) @@
    ("user.role.0" :> <<"user", ".", "role", ".", "0">>) @@
    ("." :> <<".">>) @@
    ("a.b" :> <<"a", ".", "b">>) @@
    ("items.-1" :> <<"items", ".", "-1">>) @@
    ("x.y" :> <<"x", ".", "y">>)

Paths == DOMAIN PathText

\* path.split("."): the pieces between the dots, empty pieces included
RECURSIVE SplitDots(_, _)
SplitDots(text, cur) ==
    IF text = <<>> THEN <<cur>>
    ELSE IF Head(text) = "." THEN <<cur>> \o SplitDots(Tail(text), "")
    ELSE SplitDots(Tail(text), Head(text))

\* [p for p in path.split(".") if p]
Parts(path) == SelectSeq(SplitDots(PathText[path], ""), LAMBDA p : p # "")

\* int(part) for the segments of the model; other segments raise ValueError
IntLiteral == ("0" :> 0) @@ ("1" :> 1) @@ ("2" :> 2) @@ ("-1" :> -1) @@ ("-2" :> -2) @@ ("-3" :> -3)

\* DeepWalk taking an index below zero for one that is out of range
RECURSIVE DeepWalkNoNegative(_, _, _)
DeepWalkNoNegative(cur, parts, default) ==
    IF parts = <<>> THEN cur
    ELSE LET part == Head(parts) IN
         IF cur.t = "map" THEN
             IF part \in DOMAIN cur.m
             THEN DeepWalkNoNegative(cur.m[part], Tail(parts), default)
             ELSE default
         ELSE IF cur.t = "list" THEN
             IF part \notin DOMAIN IntLiteral THEN default
             ELSE LET index == IntLiteral[part]
                      n == Len(cur.items) IN
                  IF 0 <= index /\ index < n
                  THEN DeepWalkNoNegative(cur.items[index + 1], Tail(parts), default)
                  ELSE default
         ELSE default

\* the loop of deep_get from value cur over the segments parts
RECURSIVE DeepWalk(_, _, _)
DeepWalk(cur, parts, default) ==
    IF parts = <<>> THEN cur
    ELSE LET part == Head(parts) IN
         IF cur.t = "map" THEN
             IF part \in DOMAIN cur.m
             THEN DeepWalk(cur.m[part], Tail(parts), default)
             ELSE default
         ELSE IF cur.t = "list" THEN
             IF part \notin DOMAIN IntLiteral THEN default
             ELSE LET index == IntLiteral[part]
                      n == Len(cur.items) IN
                  IF -n <= index /\ index < n
                  THEN DeepWalk(cur.items[IF index >= 0 THEN index + 1 ELSE n + index + 1],
                                Tail(parts), default)
                  ELSE default
         ELSE default

deep_get(obj, path, default) == DeepWalk(obj, Parts(path), default)

\* key.strip().lower().replace("-", "_") on the metric names that are bumped
normalize_key(key) ==
    CASE key = "rule_eval" -> "rule_eval"
      [] key = "missing" -> "missing"
      [] key = " Rule-Eval " -> "rule_eval"
      [] key = "MISSING" -> "missing"

is_truthy(value) ==
    IF value.t = "none" THEN FALSE
    ELSE IF value.t = "bool" THEN value.b
    ELSE IF value.t = "int" THEN value.n # 0
    ELSE IF value.t = "str" THEN StripLower(value.s) \notin {"", "0", "false", "no", "off"}
    ELSE TRUE

----------------------------------------------------------------------------
(* Python's operators on JSON values *)

\* a == b
RECURSIVE PyEq(_, _)
PyEq(a, b) ==
    IF IsNumber(a) /\ IsNumber(b) THEN NumberOf(a) = NumberOf(b)
    ELSE IF a.t # b.t THEN FALSE
    ELSE IF a.t = "none" THEN TRUE
    ELSE IF a.t = "str" THEN a.s = b.s
    ELSE IF a.t = "list" THEN
        /\ Len(a.items) = Len(b.items)
        /\ \A i \in 1..Len(a.items) : PyEq(a.items[i], b.items[i])
    ELSE
        /\ DOMAIN a.m = DOMAIN b.m
        /\ \A k \in DOMAIN a.m : PyEq(a.m[k], b.m[k])

\* the ordering of a and b: "lt", "eq", "gt", or "TypeError" when a < b raises
RECURSIVE PyCmp(_, _)
PyCmp(a, b) ==
    IF IsNumber(a) /\ IsNumber(b) THEN
        IF NumberOf(a) < NumberOf(b) THEN "lt"
        ELSE IF NumberOf(a) > NumberOf(b) THEN "gt" ELSE "eq"
    ELSE IF a.t = "str" /\ b.t = "str" THEN
        IF StrRank(a.s) < StrRank(b.s) THEN "lt"
        ELSE IF StrRank(a.s) > StrRank(b.s) THEN "gt" ELSE "eq"
    ELSE IF a.t = "list" /\ b.t = "list" THEN
        LET n == IF Len(a.items) < Len(b.items) THEN Len(a.items) ELSE Len(b.items)
            diff == {i \in 1..n : ~PyEq(a.items[i], b.items[i])}
        IN  IF diff = {} THEN
                IF Len(a.items) < Len(b.items) THEN "lt"
                ELSE IF Len(a.items) > Len(b.items) THEN "gt" ELSE "eq"
            ELSE LET i == CHOOSE j \in diff : \A k \in diff : j <= k
                 IN  PyCmp(a.items[i], b.items[i])
    ELSE "TypeError"

\* bool(v) is False
PyFalsy(v) ==
    \/ v.t = "none"
    \/ IsNumber(v) /\ NumberOf(v) = 0
    \/ v.t = "str" /\ v.s = ""
    \/ v.t = "list" /\ v.items = <<>>
    \/ v.t = "map" /\ DOMAIN v.m = {}

\* x in container: "True", "False", or "TypeError" when it raises
PyIn(x, container) ==
    IF container.t = "list" THEN
        IF \E i \in 1..Len(container.items) : PyEq(container.items[i], x)
        THEN "True" ELSE "False"
    ELSE IF container.t = "str" THEN
        IF x.t # "str" THEN "TypeError"
        ELSE IF IsSubstring(x.s, container.s) THEN "True" ELSE "False"
    ELSE IF container.t = "map" THEN
        IF x.t \in {"list", "map"} THEN "TypeError"
        ELSE IF x.t = "str" /\ x.s \in DOMAIN container.m THEN "True" ELSE "False"
    ELSE "TypeError"

----------------------------------------------------------------------------
(* context.py *)

StrictModes == {"off", "warn", "raise"}

\* lookups is no field of the class: it counts, by path, the deep_get calls that
\* Compare rules have made on the context's input.
EvaluationContext(input, strict) ==
    [input |-> input, strict |-> strict, cache |-> EmptyDict, metrics |-> EmptyDict,
     lookups |-> EmptyDict]

\* c after one more deep_get(c.input, path) by a Compare rule
Looked(c, path) ==
    [c EXCEPT !.lookups =
        (path :> (IF path \in DOMAIN c.lookups THEN c.lookups[path] + 1 ELSE 1)) @@ @]

\* self.metrics.get(metric, 0)
Metric(c, metric) == IF metric \in DOMAIN c.metrics THEN c.metrics[metric] ELSE 0

bump(c, metric, amount) ==
    LET m == normalize_key(metric)
    IN  [c EXCEPT !.metrics = (m :> (Metric(c, m) + amount)) @@ @]

----------------------------------------------------------------------------
(* rules.py *)

\* The rule classes, by the fields each dataclass declares.  Every class
\* declares type_name without a default ahead of its other fields; the default
\* "rule" that the base class Rule gives the attribute (rules.py:26) is left
\* out, since with it @dataclass rejects each class as it is defined
\* ("non-default argument follows default argument") and no rule exists.
CompareRule(path, op, value) ==
    [type_name |-> "compare", path |-> path, op |-> op, value |-> value]
NotRule(rule) == [type_name |-> "not", rule |-> rule]
AllRule(rules) == [type_name |-> "all", rules |-> rules]
AnyRule(rules) == [type_name |-> "any", rules |-> rules]
TruthyPathRule(path) == [type_name |-> "truthy", path |-> path]

\* The outcome of a call: the value returned, or the exception raised, and
\* the context as the call left it.
Returns(res, c) == [res |-> res, raised |-> "", msg |-> <<>>, ctx |-> c]
Raises(cls, msg, c) == [res |-> FALSE, raised |-> cls, msg |-> msg, ctx |-> c]

CacheKey(path) == <<"path:", path>>

\* ApplyOp returning false for an op it does not know
ApplyOpUnknownFalse(op, actual, value, path, c) ==
    LET typeError == Raises("RuleEvaluationError", <<"TypeError">>, c)
        ordered(ok) ==
            LET o == PyCmp(actual, value)
            IN  IF o = "TypeError" THEN typeError ELSE Returns(o \in ok, c)
        member(r) == IF r = "TypeError" THEN typeError ELSE Returns(r = "True", c)
    IN  CASE op = "eq" -> Returns(PyEq(actual, value), c)
          [] op = "ne" -> Returns(~PyEq(actual, value), c)
          [] op = "gt" -> ordered({"gt"})
          [] op = "gte" -> ordered({"gt", "eq"})
          [] op = "lt" -> ordered({"lt"})
          [] op = "lte" -> ordered({"lt", "eq"})
          [] op = "in" -> member(PyIn(actual, IF PyFalsy(value) THEN JList(<<>>) ELSE value))
          [] op = "contains" -> member(PyIn(value, actual))
          [] op = "exists" -> Returns(TRUE, c)
          [] OTHER -> Returns(FALSE, c)

\* the try block of CompareRule.evaluate and the raise that follows it
ApplyOp(op, actual, value, path, c) ==
    LET typeError == Raises("RuleEvaluationError", <<"TypeError">>, c)
        ordered(ok) ==
            LET o == PyCmp(actual, value)
            IN  IF o = "TypeError" THEN typeError ELSE Returns(o \in ok, c)
        member(r) == IF r = "TypeError" THEN typeError ELSE Returns(r = "True", c)
    IN  CASE op = "eq" -> Returns(PyEq(actual, value), c)
          [] op = "ne" -> Returns(~PyEq(actual, value), c)
          [] op = "gt" -> ordered({"gt"})
          [] op = "gte" -> ordered({"gt", "eq"})
          [] op = "lt" -> ordered({"lt"})
          [] op = "lte" -> ordered({"lt", "eq"})
          [] op = "in" -> member(PyIn(actual, IF PyFalsy(value) THEN JList(<<>>) ELSE value))
          [] op = "contains" -> member(PyIn(value, actual))
          [] op = "exists" -> Returns(TRUE, c)
          [] OTHER -> Raises("RuleEvaluationError", <<"Unknown compare op", op>>, c)

\* OnMissing with strict "raise" taken for "warn"
OnMissingNeverRaises(path, c) == Returns(FALSE, bump(c, "missing", 1))

\* OnMissing bumping "missing" under "off" as well
OnMissingCountsWhenOff(path, c) ==
    IF c.strict = "raise"
    THEN Raises("RuleEvaluationError", <<"Missing value at path", path>>, c)
    ELSE Returns(FALSE, bump(c, "missing", 1))

\* what a rule does with a path that resolved to None
OnMissing(path, c) ==
    IF c.strict = "raise"
    THEN Raises("RuleEvaluationError", <<"Missing value at path", path>>, c)
    ELSE IF c.strict = "warn" THEN Returns(FALSE, bump(c, "missing", 1))
    ELSE Returns(FALSE, c)

\* CompareRule.evaluate with the strict mode looked at before the op
CompareEvaluateStrictFirst(rule, c0) ==
    LET c1 == bump(c0, "rule_eval", 1)
        key == CacheKey(rule.path)
        cached == key \in DOMAIN c1.cache
        actual == IF cached THEN c1.cache[key] ELSE deep_get(c1.input, rule.path, None)
        c2 == IF cached THEN c1
              ELSE [Looked(c1, rule.path) EXCEPT !.cache = (key :> actual) @@ @]
    IN  IF actual = None THEN
            IF c2.strict = "off" /\ rule.op = "exists" THEN Returns(FALSE, c2)
            ELSE OnMissing(rule.path, c2)
        ELSE ApplyOp(rule.op, actual, rule.value, rule.path, c2)

CompareEvaluate(rule, c0) ==
    LET c1 == bump(c0, "rule_eval", 1)
        key == CacheKey(rule.path)
        cached == key \in DOMAIN c1.cache
        actual == IF cached THEN c1.cache[key] ELSE deep_get(c1.input, rule.path, None)
        c2 == IF cached THEN c1
              ELSE [Looked(c1, rule.path) EXCEPT !.cache = (key :> actual) @@ @]
    IN  IF actual = None THEN
            IF rule.op = "exists" THEN Returns(FALSE, c2) ELSE OnMissing(rule.path, c2)
        ELSE ApplyOp(rule.op, actual, rule.value, rule.path, c2)

TruthyPathEvaluate(rule, c) ==
    LET val == deep_get(c.input, rule.path, None)
    IN  IF val = None THEN OnMissing(rule.path, c) ELSE Returns(is_truthy(val), c)

RECURSIVE Evaluate(_, _)

\* NotRule.evaluate taking a child that raises for one that is false
NotEvaluateCatching(rule, c) ==
    LET o == Evaluate(rule.rule, c)
    IN  Returns(~o.res, o.ctx)

NotEvaluate(rule, c) ==
    LET o == Evaluate(rule.rule, c)
    IN  IF o.raised # "" THEN o ELSE Returns(~o.res, o.ctx)

\* the loop of AllRule.evaluate without the early return
RECURSIVE AllLoopEager(_, _)
AllLoopEager(rules, c) ==
    IF rules = <<>> THEN Returns(TRUE, c)
    ELSE LET o == Evaluate(Head(rules), c)
         IN  IF o.raised # "" THEN o
             ELSE LET rest == AllLoopEager(Tail(rules), o.ctx)
                  IN  IF rest.raised # "" THEN rest
                      ELSE Returns(o.res /\ rest.res, rest.ctx)

RECURSIVE AllLoop(_, _)
AllLoop(rules, c) ==
    IF rules = <<>> THEN Returns(TRUE, c)
    ELSE LET o == Evaluate(Head(rules), c)
         IN  IF o.raised # "" THEN o
             ELSE IF ~o.res THEN Returns(FALSE, o.ctx)
             ELSE AllLoop(Tail(rules), o.ctx)

AllEvaluate(rule, c) == AllLoop(rule.rules, c)

\* the loop of AnyRule.evaluate without the early return
RECURSIVE AnyLoopEager(_, _)
AnyLoopEager(rules, c) ==
    IF rules = <<>> THEN Returns(FALSE, c)
    ELSE LET o == Evaluate(Head(rules), c)
         IN  IF o.raised # "" THEN o
             ELSE LET rest == AnyLoopEager(Tail(rules), o.ctx)
                  IN  IF rest.raised # "" THEN rest
                      ELSE Returns(o.res \/ rest.res, rest.ctx)

RECURSIVE AnyLoop(_, _)
AnyLoop(rules, c) ==
    IF rules = <<>> THEN Returns(FALSE, c)
    ELSE LET o == Evaluate(Head(rules), c)
         IN  IF o.raised # "" THEN o
             ELSE IF o.res THEN Returns(TRUE, o.ctx)
             ELSE AnyLoop(Tail(rules), o.ctx)

AnyEvaluate(rule, c) == AnyLoop(rule.rules, c)

\* rule.evaluate(ctx), dispatched on the rule's class
Evaluate(rule, c) ==
    CASE rule.type_name = "compare" -> CompareEvaluate(rule, c)
      [] rule.type_name = "not" -> NotEvaluate(rule, c)
      [] rule.type_name = "all" -> AllEvaluate(rule, c)
      [] rule.type_name = "any" -> AnyEvaluate(rule, c)
      [] rule.type_name = "truthy" -> TruthyPathEvaluate(rule, c)

\* rule.explain(ctx): CompareRule's own, Rule's default for the other classes
Explain(rule, c) ==
    LET o == Evaluate(rule, c)
    IN  IF o.raised # "" THEN o
        ELSE IF rule.type_name = "compare" THEN
            [o EXCEPT !.res = [type |-> "compare", path |-> rule.path, op |-> rule.op,
                               value |-> rule.value,
                               actual |-> deep_get(c.input, rule.path, None),
                               result |-> o.res],
                      !.ctx = Looked(@, rule.path)]
        ELSE [o EXCEPT !.res = [type |-> rule.type_name, result |-> o.res]]

----------------------------------------------------------------------------
(* registry.py *)

\* spec.get(key): the value under key, None when the key is absent
DictGet(d, key) == IF key \in DOMAIN d.m THEN d.m[key] ELSE None

\* an outcome of building a rule: the rule, or the exception raised
Built(rule) == [rule |-> rule, raised |-> "", msg |-> <<>>]
Fails(cls, msg) == [rule |-> None, raised |-> cls, msg |-> msg]

parse_compare_rule(spec) ==
    LET path == DictGet(spec, "path")
        op == DictGet(spec, "op")
    IN  IF path.t # "str" \/ path.s = ""
        THEN Fails("RuleSyntaxError", <<"compare rule requires non-empty 'path'">>)
        ELSE IF op.t # "str" \/ op.s = ""
        THEN Fails("RuleSyntaxError", <<"compare rule requires non-empty 'op'">>)
        ELSE Built(CompareRule(path.s, op.s, DictGet(spec, "value")))

RECURSIVE create(_, _)

\* [r.create(s) for s in items]: the rules built so far, or the first exception
RECURSIVE CreateEach(_, _, _)
CreateEach(items, F, done) ==
    IF items = <<>> THEN Built(done)
    ELSE LET b == create(Head(items), F)
         IN  IF b.raised # "" THEN b ELSE CreateEach(Tail(items), F, Append(done, b.rule))

\* _all and _any of register_builtin_rules
CompositeFactory(kind, spec, F) ==
    LET got == DictGet(spec, "rules")
        items == IF PyFalsy(got) THEN JList(<<>>) ELSE got
    IN  IF items.t # "list"
        THEN Fails("RuleSyntaxError", <<kind, "rule requires list 'rules'">>)
        ELSE LET b == CreateEach(items.items, F, <<>>)
             IN  IF b.raised # "" THEN b
                 ELSE Built([type_name |-> kind, rules |-> b.rule])

NotFactory(spec, F) ==
    LET inner == DictGet(spec, "rule")
    IN  IF inner.t # "map"
        THEN Fails("RuleSyntaxError", <<"not rule requires dict 'rule'">>)
        ELSE LET b == create(inner, F)
             IN  IF b.raised # "" THEN b ELSE Built(NotRule(b.rule))

TruthyFactory(spec) ==
    LET path == DictGet(spec, "path")
    IN  IF path.t # "str" \/ path.s = ""
        THEN Fails("RuleSyntaxError", <<"truthy rule requires non-empty 'path'">>)
        ELSE Built(TruthyPathRule(path.s))

\* the five factories register_builtin_rules installs, by the name it gives them
BuiltinFactories ==
    ("compare" :> "parse_compare_rule") @@ ("all" :> "_all") @@ ("any" :> "_any") @@
    ("not" :> "_not") @@ ("truthy" :> "_truthy")

\* factory(spec, registry)
CallFactory(factory, spec, F) ==
    CASE factory = "parse_compare_rule" -> parse_compare_rule(spec)
      [] factory = "_all" -> CompositeFactory("all", spec, F)
      [] factory = "_any" -> CompositeFactory("any", spec, F)
      [] factory = "_not" -> NotFactory(spec, F)
      [] factory = "_truthy" -> TruthyFactory(spec)

\* create raising the syntax error for a type that has no factory
createUnknownAsSyntax(spec, F) ==
    IF spec.t # "map" THEN Fails("RuleSyntaxError", <<"rule spec must be a dict">>)
    ELSE LET type_name == DictGet(spec, "type")
         IN  IF type_name.t # "str" \/ type_name.s = "" \/ type_name.s \notin DOMAIN F
             THEN Fails("RuleSyntaxError", <<"rule spec requires non-empty 'type'">>)
             ELSE CallFactory(F[type_name.s], spec, F)

\* RuleRegistry.create on the mapping F
create(spec, F) ==
    IF spec.t # "map" THEN Fails("RuleSyntaxError", <<"rule spec must be a dict">>)
    ELSE LET type_name == DictGet(spec, "type")
         IN  IF type_name.t # "str" \/ type_name.s = ""
             THEN Fails("RuleSyntaxError", <<"rule spec requires non-empty 'type'">>)
             ELSE IF type_name.s \notin DOMAIN F
             THEN Fails("UnknownRuleError", <<type_name.s>>)
             ELSE CallFactory(F[type_name.s], spec, F)

\* self._factories[type_name] = factory
register(F, type_name, factory) == (type_name :> factory) @@ F

\* self._factories.pop(type_name, None)
unregister(F, type_name) == [k \in DOMAIN F \ {type_name} |-> F[k]]

register_builtin_rules(F) ==
    LET f1 == register(F, "compare", BuiltinFactories["compare"])
        f2 == register(f1, "all", BuiltinFactories["all"])
        f3 == register(f2, "any", BuiltinFactories["any"])
        f4 == register(f3, "not", BuiltinFactories["not"])
    IN  register(f4, "truthy", BuiltinFactories["truthy"])

----------------------------------------------------------------------------
(* engine.py *)

PolicySpec(name, effect, rules) ==
    [kind |-> "PolicySpec", name |-> name, effect |-> effect, rules |-> rules]
Policy(name, effect, rules) ==
    [kind |-> "Policy", name |-> name, effect |-> effect, rules |-> rules]

\* PolicyEngine.compile: the Policy, or the exception of the first rule spec that fails
compile(spec, F) ==
    LET b == CreateEach(spec.rules, F, <<>>)
    IN  IF b.raised # "" THEN b ELSE Built(Policy(spec.name, spec.effect, b.rule))

\* One pass of the loop of PolicyEngine.evaluate: what it makes of rule's
\* evaluate outcome o and, under explain, of its explain outcome e.
RECURSIVE RunRules(_, _, _, _, _)

\* RunStep going on to the next rule after a false one
RunStepNoBreak(rules, o, e, explain, details, ran) ==
    IF e.raised # ""
    THEN [matched |-> TRUE, details |-> details, ran |-> ran + 1,
          raised |-> e.raised, msg |-> e.msg, ctx |-> e.ctx]
    ELSE RunRules(Tail(rules), e.ctx, explain,
                  IF explain THEN Append(details, e.res) ELSE details, ran + 1)

\* RunStep leaving the loop on a false rule before its explanation is appended
RunStepBreakFirst(rules, o, e, explain, details, ran) ==
    IF e.raised # ""
    THEN [matched |-> TRUE, details |-> details, ran |-> ran + 1,
          raised |-> e.raised, msg |-> e.msg, ctx |-> e.ctx]
    ELSE IF ~o.res
    THEN [matched |-> FALSE, details |-> details,
          ran |-> ran + 1, raised |-> "", msg |-> <<>>, ctx |-> e.ctx]
    ELSE RunRules(Tail(rules), e.ctx, explain,
                  IF explain THEN Append(details, e.res) ELSE details, ran + 1)

RunStep(rules, o, e, explain, details, ran) ==
    IF e.raised # ""
    THEN [matched |-> TRUE, details |-> details, ran |-> ran + 1,
          raised |-> e.raised, msg |-> e.msg, ctx |-> e.ctx]
    ELSE IF ~o.res
    THEN [matched |-> FALSE, details |-> IF explain THEN Append(details, e.res) ELSE details,
          ran |-> ran + 1, raised |-> "", msg |-> <<>>, ctx |-> e.ctx]
    ELSE RunRules(Tail(rules), e.ctx, explain,
                  IF explain THEN Append(details, e.res) ELSE details, ran + 1)

\* RunExplain going on to the next rule once the explanation is appended
RunExplainContinue(rules, o, explain, details, ran) ==
    RunStep(rules, IF explain /\ o.raised = "" THEN [o EXCEPT !.res = TRUE] ELSE o,
            IF explain /\ o.raised = "" THEN Explain(Head(rules), o.ctx) ELSE o,
            explain, details, ran)

RunExplain(rules, o, explain, details, ran) ==
    RunStep(rules, o, IF explain /\ o.raised = "" THEN Explain(Head(rules), o.ctx) ELSE o,
            explain, details, ran)

\* The loop of PolicyEngine.evaluate over compiled.rules.  ran counts the rules
\* whose evaluate was called, details is the list the loop appends to.
RunRules(rules, c, explain, details, ran) ==
    IF rules = <<>>
    THEN [matched |-> TRUE, details |-> details, ran |-> ran, raised |-> "", msg |-> <<>>, ctx |-> c]
    ELSE RunExplain(rules, Evaluate(Head(rules), c), explain, details, ran)

\* Decide with allowed taken from matched whatever the effect
DecideIgnoringEffect(compiled, run, explain) ==
    IF run.raised # ""
    THEN [raised |-> run.raised, msg |-> run.msg, ran |-> run.ran, decision |-> None,
          ctx |-> run.ctx]
    ELSE [raised |-> "", msg |-> <<>>, ran |-> run.ran, ctx |-> run.ctx,
          decision |->
              [allowed |-> run.matched,
               policy |-> compiled.name,
               effect |-> compiled.effect,
               matched |-> run.matched,
               explanation |->
                   IF explain
                   THEN [matched |-> run.matched, effect |-> compiled.effect,
                         metrics |-> run.ctx.metrics, rules |-> run.details]
                   ELSE None]]

\* the Decision evaluate builds once the loop has ended in run
Decide(compiled, run, explain) ==
    IF run.raised # ""
    THEN [raised |-> run.raised, msg |-> run.msg, ran |-> run.ran, decision |-> None,
          ctx |-> run.ctx]
    ELSE [raised |-> "", msg |-> <<>>, ran |-> run.ran, ctx |-> run.ctx,
          decision |->
              [allowed |-> IF compiled.effect = "allow" THEN run.matched ELSE ~run.matched,
               policy |-> compiled.name,
               effect |-> compiled.effect,
               matched |-> run.matched,
               explanation |->
                   IF explain
                   THEN [matched |-> run.matched, effect |-> compiled.effect,
                         metrics |-> run.ctx.metrics, rules |-> run.details]
                   ELSE None]]

\* evaluate once policy is resolved to b: a compiled Policy, or an exception
EvaluateCompiled(b, input_data, strict_mode, explain) ==
    IF b.raised # ""
    THEN [raised |-> b.raised, msg |-> b.msg, ran |-> 0, decision |-> None, ctx |-> None]
    ELSE Decide(b.rule,
                RunRules(b.rule.rules, EvaluationContext(input_data, strict_mode),
                         explain, <<>>, 0),
                explain)

\* evaluate compiling a PolicySpec on the mapping the registry had when the
\* caller loaded it
EngineEvaluateAtLoad(engineStrict, F, policy, input_data, strict, explain) ==
    EvaluateCompiled(
        IF policy.kind = "PolicySpec"
        THEN compile(policy, IF loaded = None THEN F ELSE loaded.registry)
        ELSE IF policy.kind = "Policy" THEN Built(policy)
        ELSE Fails("PolicyLoadError", <<"policy must be a PolicySpec or Policy">>),
        input_data,
        IF PyFalsy(strict) THEN engineStrict ELSE strict.s,
        explain)

\* PolicyEngine.evaluate of an engine with default mode engineStrict on registry F
EngineEvaluate(engineStrict, F, policy, input_data, strict, explain) ==
    EvaluateCompiled(
        IF policy.kind = "PolicySpec" THEN compile(policy, F)
        ELSE IF policy.kind = "Policy" THEN Built(policy)
        ELSE Fails("PolicyLoadError", <<"policy must be a PolicySpec or Policy">>),
        input_data,
        IF PyFalsy(strict) THEN engineStrict ELSE strict.s,
        explain)

----------------------------------------------------------------------------
(* loader.py *)

\* The characters of each source string up to its first character that is not
\* white space (all of them when there is none).
TextLead ==
    ("{\"name\": \"p\", \"effect\": \"deny\"}" :> <<"{">>) @@
    ("  {\"effect\": \"deny\"}" :> <<" ", " ", "{">>) @@
    ("{\"name\": " :> <<"{">>) @@
    ("/etc/p.json" :> <<"/">>) @@
    ("p.json" :> <<"p">>) @@
    ("list.json" :> <<"l">>) @@
    ("bad.json" :> <<"b">>) @@
    ("" :> <<>>)

\* text.strip().startswith("{")
StartsWithBrace(text) ==
    LET rest == SelectSeq(TextLead[text], LAMBDA ch : ch # " ")
    IN  rest # <<>> /\ Head(rest) = "{"

JSONDecodeError == [t |-> "JSONDecodeError"]

\* json.loads(text): the value the text denotes, JSONDecodeError when it denotes none
JsonText ==
    ("{\"name\": \"p\", \"effect\": \"deny\"}" :>
        JMap(("name" :> JStr("p")) @@ ("effect" :> JStr("deny")))) @@
    ("  {\"effect\": \"deny\"}" :> JMap("effect" :> JStr("deny"))) @@
    ("{\"name\": " :> JSONDecodeError) @@
    ("{\"name\": \"p\", \"rules\": [{\"type\": \"truthy\", \"path\": \"user.active\"}]}" :>
        JMap(("name" :> JStr("p")) @@
             ("rules" :> JList(<<JMap(("type" :> JStr("truthy")) @@
                                      ("path" :> JStr("user.active")))>>)))) @@
    ("[1]" :> JList(<<JInt(1)>>)) @@
    ("{name}" :> JSONDecodeError)

json_loads(text) == JsonText[text]

\* Path(text): whether it is absolute, and its components
PathOf ==
    ("/etc/p.json" :> [absolute |-> TRUE, parts |-> <<"/etc", "p.json">>]) @@
    ("p.json" :> [absolute |-> FALSE, parts |-> <<"p.json">>]) @@
    ("list.json" :> [absolute |-> FALSE, parts |-> <<"list.json">>]) @@
    ("bad.json" :> [absolute |-> FALSE, parts |-> <<"bad.json">>]) @@
    ("" :> [absolute |-> FALSE, parts |-> <<>>])

\* The files there are, by the components of their absolute path or, for a
\* relative path, "." and its components.
Files ==
    (<<"/etc", "p.json">> :>
        "{\"name\": \"p\", \"rules\": [{\"type\": \"truthy\", \"path\": \"user.active\"}]}") @@
    (<<"/etc", "list.json">> :> "[1]") @@
    (<<".", "bad.json">> :> "{name}")

OSError == [t |-> "OSError"]

\* path.read_text(encoding="utf-8")
read_text(parts) == IF parts \in DOMAIN Files THEN JStr(Files[parts]) ELSE OSError

\* the outcome of load_policy: the PolicySpec, or the exception raised
Loaded(spec) == [spec |-> spec, raised |-> "", msg |-> <<>>]
LoadFails(cls, msg) == [spec |-> None, raised |-> cls, msg |-> msg]

\* ValidateRules looking at the first rule spec only
ValidateRulesFirstOnly(rules, F) ==
    IF rules = <<>> THEN Built(None)
    ELSE IF Head(rules).t # "map"
    THEN Fails("RuleSyntaxError", <<"rule spec must be a dict">>)
    ELSE LET b == create(Head(rules), F)
         IN  IF b.raised # "" THEN b ELSE Built(None)

\* the for loop of load_policy: an outcome of create that raised, or Built(None)
RECURSIVE ValidateRules(_, _)
ValidateRules(rules, F) ==
    IF rules = <<>> THEN Built(None)
    ELSE IF Head(rules).t # "map"
    THEN Fails("RuleSyntaxError", <<"rule spec must be a dict">>)
    ELSE LET b == create(Head(rules), F)
         IN  IF b.raised # "" THEN b ELSE ValidateRules(Tail(rules), F)

\* what load_policy makes of the outcome v of its loop: except RuleSyntaxError
\* wraps, any other exception leaves load_policy as it is
LoadValidated(name, effect, rules, v) ==
    IF v.raised = "RuleSyntaxError" THEN LoadFails("PolicyLoadError", v.msg)
    ELSE IF v.raised # "" THEN LoadFails(v.raised, v.msg)
    ELSE Loaded(PolicySpec(name, effect, rules))

\* load_policy from name = data.get("name") on
LoadData(data, F) ==
    IF data.t # "map" THEN LoadFails("AttributeError", <<"get">>)
    ELSE LET name == DictGet(data, "name")
             effect == IF "effect" \in DOMAIN data.m THEN data.m["effect"] ELSE JStr("allow")
             got == DictGet(data, "rules")
             rules == IF PyFalsy(got) THEN JList(<<>>) ELSE got
         IN  IF name.t # "str" \/ name.s = ""
             THEN LoadFails("PolicyLoadError", <<"policy requires non-empty 'name'">>)
             ELSE IF effect.t \in {"list", "map"}
             THEN LoadFails("TypeError", <<"unhashable type">>)
             ELSE IF ~(effect.t = "str" /\ effect.s \in {"allow", "deny"})
             THEN LoadFails("PolicyLoadError", <<"policy 'effect' must be 'allow' or 'deny'">>)
             ELSE IF rules.t # "list"
             THEN LoadFails("PolicyLoadError", <<"policy 'rules' must be a list">>)
             ELSE LoadValidated(name.s, effect.s, rules.items, ValidateRules(rules.items, F))

\* load_policy from the text read on: except json.JSONDecodeError, OSError wraps
LoadText(text, F) ==
    IF text = OSError THEN LoadFails("PolicyLoadError", <<"OSError">>)
    ELSE IF json_loads(text.s) = JSONDecodeError
    THEN LoadFails("PolicyLoadError", <<"JSONDecodeError">>)
    ELSE LoadData(json_loads(text.s), F)

\* load_policy(source, registry, base_dir=base_dir) on a registry with mapping F
load_policy(source, F, base_dir) ==
    IF source.t = "str" THEN
        IF StartsWithBrace(source.s) THEN LoadText(source, F)
        ELSE LET path == PathOf[source.s]
             IN  LoadText(read_text(IF ~path.absolute /\ ~PyFalsy(base_dir)
                                    THEN <<base_dir.s>> \o path.parts
                                    ELSE IF path.absolute THEN path.parts
                                    ELSE <<".">> \o path.parts), F)
    ELSE IF source.t = "map" THEN LoadData(source, F)
    ELSE LoadFails("PolicyLoadError", <<"Unsupported policy source type">>)

----------------------------------------------------------------------------
(* The inputs, rules, rule specs and policies the calls are drawn from *)

MaxChildren == 2   \* longest child list of an all/any rule
MaxRules == 2      \* longest rule list of a policy
MaxEvals == 2      \* a caller stops reusing a context whose counters reached this
MaxThreads == 2    \* threads of the process

Threads == 1..MaxThreads

InAdmin ==
    JMap("user" :> JMap(("role" :> JStr("admin")) @@ ("active" :> JBool(TRUE)) @@
                        ("age" :> JInt(2)) @@ ("tags" :> JList(<<JStr("a"), JStr("b")>>))))
InUser ==
    JMap("user" :> JMap(("role" :> JStr("user")) @@ ("active" :> JStr("  NO  ")) @@
                        ("age" :> JStr("a"))))
InNull == JMap("user" :> JMap(("role" :> None) @@ ("active" :> JInt(1))))
InEmpty == JMap(EmptyDict)

Inputs == {InAdmin, InUser, InNull, InEmpty}

cRole == CompareRule("user.role", "eq", JStr("admin"))
cAge == CompareRule("user.age", "gt", JInt(1))
cExists == CompareRule("user.role", "exists", None)
cIn == CompareRule("user.role", "in", JList(<<JStr("admin"), JStr("user")>>))
cBadOp == CompareRule("user.role", "matches", JStr("admin"))
tActive == TruthyPathRule("user.active")

Leaves == {cRole, cAge, cExists, cIn, cBadOp, tActive}
ChildRules == {cRole, cAge, tActive}

\* the sequences over S of length at most n
RECURSIVE SeqsUpTo(_, _)
SeqsUpTo(S, n) ==
    IF n = 0 THEN {<<>>}
    ELSE LET shorter == SeqsUpTo(S, n - 1)
         IN  shorter \cup {Append(q, x) : q \in shorter, x \in S}

ChildLists == SeqsUpTo(ChildRules, MaxChildren)
FlatRules == Leaves \cup {AllRule(q) : q \in ChildLists} \cup {AnyRule(q) : q \in ChildLists}
NestedRules ==
    {AllRule(<<AnyRule(<<cAge, cRole>>), tActive>>),
     AnyRule(<<AllRule(<<cExists, tActive>>), cAge>>)}
Negated == {NotRule(r) : r \in FlatRules \cup NestedRules}
RuleTrees == FlatRules \cup NestedRules \cup Negated \cup {NotRule(r) : r \in Negated}

TopRules ==
    {cRole, cAge, tActive, AllRule(<<cExists, tActive, cAge>>),
     AnyRule(<<NotRule(tActive), cRole>>)}
PolicyNames == {"admin-only"}
Effects == {"allow", "deny"}
Policies ==
    {Policy(n, e, q) : n \in PolicyNames, e \in Effects, q \in SeqsUpTo(TopRules, MaxRules)}

Dict1(k, v) == JMap(k :> v)
sCompare ==
    JMap(("type" :> JStr("compare")) @@ ("path" :> JStr("user.role")) @@
         ("op" :> JStr("eq")) @@ ("value" :> JStr("admin")))
sTruthy == JMap(("type" :> JStr("truthy")) @@ ("path" :> JStr("user.active")))
sGhost == Dict1("type", JStr("ghost"))
sNoType == Dict1("path", JStr("user.role"))
sEmptyType == Dict1("type", JStr(""))
sIntType == Dict1("type", JInt(1))
sNotDict == JStr("compare")
sCompareNoOp == JMap(("type" :> JStr("compare")) @@ ("path" :> JStr("user.role")))
sAll == JMap(("type" :> JStr("all")) @@ ("rules" :> JList(<<sCompare, sTruthy>>)))
sAllNoRules == Dict1("type", JStr("all"))
sAllGhost == JMap(("type" :> JStr("all")) @@ ("rules" :> JList(<<sCompare, sGhost>>)))
sAnyBadRules == JMap(("type" :> JStr("any")) @@ ("rules" :> JInt(1)))
sAnyZeroRules == JMap(("type" :> JStr("any")) @@ ("rules" :> JInt(0)))
sNot == JMap(("type" :> JStr("not")) @@ ("rule" :> sTruthy))
sNotNoRule == Dict1("type", JStr("not"))

RuleSpecs ==
    {sCompare, sTruthy, sGhost, sNoType, sEmptyType, sIntType, sNotDict, sCompareNoOp,
     sAll, sAllNoRules, sAllGhost, sAnyBadRules, sAnyZeroRules, sNot, sNotNoRule}

PolicySpecs ==
    {PolicySpec("block-admin", e, q) :
        e \in Effects, q \in {<<>>, <<sCompare>>, <<sNot, sAll>>, <<sCompare, sGhost>>}}

NotAPolicy == [kind |-> "dict"]

\* compare specs: the ops evaluate knows, two it does not, and ops that are no
\* non-empty str
CompareOps == {"eq", "ne", "gt", "gte", "lt", "lte", "in", "contains", "exists"}
OpFields == {JStr(op) : op \in CompareOps \cup {"matches", "EQ"}} \cup {JStr(""), JInt(1)}
CompareSpecs ==
    {JMap(("type" :> JStr("compare")) @@ ("path" :> JStr(path)) @@ ("op" :> op) @@
          ("value" :> JStr("admin"))) :
        path \in {"user.role", "user..tags.-1"}, op \in OpFields}
    \cup {sCompareNoOp}

\* policy sources: dicts, JSON texts, paths, and a value that is none of these
Source(name, effect, rules) ==
    JMap(("name" :> name) @@ ("effect" :> effect) @@ ("rules" :> rules))
LoadSources ==
    {JMap(("effect" :> JStr("allow")) @@ ("rules" :> JList(<<>>))),
     Source(JStr("x"), JStr("permit"), JList(<<>>)),
     Source(JStr(""), JStr("allow"), JList(<<>>)),
     Source(JInt(1), JStr("allow"), JList(<<>>)),
     Dict1("name", JStr("x")),
     Source(JStr("x"), None, JList(<<>>)),
     Source(JStr("x"), JList(<<JStr("allow")>>), JList(<<>>)),
     Source(JList(<<>>), JList(<<JStr("allow")>>), JList(<<>>)),
     Source(JStr("x"), JStr("allow"), JInt(0)),
     Source(JStr("x"), JStr("allow"), JStr("a")),
     Source(JStr("x"), JStr("deny"), JList(<<sCompare, sGhost>>)),
     Source(JStr("x"), JStr("deny"), JList(<<sNot, sAll>>)),
     Source(JStr("x"), JStr("allow"), JList(<<sTruthy, JInt(1)>>)),
     Source(JStr("x"), JStr("allow"), JList(<<sCompareNoOp>>)),
     JInt(5)}
    \cup {JStr(text) : text \in DOMAIN TextLead}
BaseDirs == {None, JStr("/etc")}

\* what deep_get is called on
Roots ==
    Inputs \cup
    {JMap("a" :> JMap("b" :> JInt(1))),
     JMap("items" :> JList(<<JInt(10), JInt(20)>>)),
     JMap("user" :> JMap("tags" :> JList(<<>>))),
     JList(<<JMap("role" :> JStr("admin")), JStr("a"), InAdmin>>),
     JStr("admin")}
Defaults == {None, JInt(42)}

\* what the threads evaluate, on what, and the strict argument they pass
SharedPolicies ==
    {Policy("admin-only", "allow", <<cRole, cAge>>),
     Policy("admin-only", "deny", <<tActive, cRole>>),
     Policy("admin-only", "allow", <<AllRule(<<cExists, tActive, cAge>>)>>),
     Policy("admin-only", "deny", <<>>)}
SharedInputs == {InAdmin, InNull}
SharedStrict == {None, JStr("raise")}

\* policy sources load_policy accepts on the built-in factories, and the types
\* the caller registers again or unregisters once it holds the PolicySpec
KeptSources ==
    {Source(JStr("x"), JStr("deny"), JList(<<sNot, sAll>>)),
     Source(JStr("x"), JStr("allow"), JList(<<sCompare>>)),
     Source(JStr("x"), JStr("allow"), JList(<<sTruthy, sCompare>>)),
     Source(JStr("x"), JStr("deny"), JList(<<>>))}
Replaced == {"not", "truthy"}
Removed == {"compare", "truthy", "not"}

TypeNames == {"", "ghost", "not", "compare"}
Factories == {"_truthy", "_not"}
StrictArgs == {None} \cup {JStr(m) : m \in StrictModes}

----------------------------------------------------------------------------
(* The state machine *)

NoRet == [op |-> "none"]

\* a thread that is in no call
IdleFrame == [op |-> "none", pc |-> "idle"]

Init ==
    /\ factories = EmptyDict
    /\ ctx = EvaluationContext(InEmpty, "warn")
    /\ engine = [strict |-> "warn"]
    /\ ret = NoRet
    /\ pc = "idle"
    /\ loaded = None
    /\ kept = None
    /\ default_registry = None
    /\ registries = <<>>
    /\ threads = [t \in Threads |-> IdleFrame]
    /\ shared_policy = None
    /\ contexts = <<>>

\* the caller drops what the call returned and goes on
Return ==
    /\ pc = "returned"
    /\ pc' = "idle"
    /\ ret' = NoRet
    /\ UNCHANGED <<factories, ctx, engine>>
    /\ UNCHANGED <<loaded, kept, concurrent>>

\* RuleRegistry.register(type_name, factory)
Register(type_name, factory) ==
    /\ pc = "idle"
    /\ factories' = register(factories, type_name, factory)
    /\ ret' = [op |-> "register", type_name |-> type_name, factory |-> factory]
    /\ pc' = "returned"
    /\ UNCHANGED <<ctx, engine>>
    /\ UNCHANGED <<loaded, kept, concurrent>>

\* RuleRegistry.unregister(type_name)
Unregister(type_name) ==
    /\ pc = "idle"
    /\ factories' = unregister(factories, type_name)
    /\ ret' = [op |-> "unregister", type_name |-> type_name]
    /\ pc' = "returned"
    /\ UNCHANGED <<ctx, engine>>
    /\ UNCHANGED <<loaded, kept, concurrent>>

\* register_builtin_rules(registry)
RegisterBuiltinRules ==
    /\ pc = "idle"
    /\ factories' = register_builtin_rules(factories)
    /\ ret' = [op |-> "register_builtin_rules"]
    /\ pc' = "returned"
    /\ UNCHANGED <<ctx, engine>>
    /\ UNCHANGED <<loaded, kept, concurrent>>

\* RuleRegistry.create(spec)
Create(spec) ==
    /\ pc = "idle"
    /\ LET b == create(spec, factories)
       IN  ret' = [op |-> "create", spec |-> spec, pre |-> factories, rule |-> b.rule,
                   raised |-> b.raised, msg |-> b.msg]
    /\ pc' = "returned"
    /\ UNCHANGED <<factories, ctx, engine>>
    /\ UNCHANGED <<loaded, kept, concurrent>>

\* EvaluationContext(input=..., strict=...)
NewContext(input, strict) ==
    /\ pc = "idle"
    /\ ctx' = EvaluationContext(input, strict)
    /\ UNCHANGED <<factories, engine, ret, pc>>
    /\ UNCHANGED <<loaded, kept, concurrent>>

\* rule.evaluate(ctx) on the caller's context
RuleEvaluate(rule) ==
    /\ pc = "idle"
    /\ Metric(ctx, "rule_eval") < MaxEvals
    /\ Metric(ctx, "missing") < MaxEvals
    /\ LET o == Evaluate(rule, ctx)
       IN  /\ ctx' = o.ctx
           /\ ret' = [op |-> "evaluate", rule |-> rule, pre |-> ctx,
                      res |-> o.res, raised |-> o.raised, msg |-> o.msg]
    /\ pc' = "returned"
    /\ UNCHANGED <<factories, engine>>
    /\ UNCHANGED <<loaded, kept, concurrent>>

\* rule = registry.create(spec) has returned; rule.evaluate(ctx)
EvaluateCreated ==
    /\ pc = "returned"
    /\ ret.op = "create"
    /\ ret.raised = ""
    /\ Metric(ctx, "rule_eval") < MaxEvals
    /\ LET o == Evaluate(ret.rule, ctx)
       IN  /\ ctx' = o.ctx
           /\ ret' = [op |-> "evaluate", rule |-> ret.rule, pre |-> ctx,
                      res |-> o.res, raised |-> o.raised, msg |-> o.msg]
    /\ UNCHANGED <<factories, engine, pc>>
    /\ UNCHANGED <<loaded, kept, concurrent>>

\* spec = load_policy(source, registry, base_dir=base_dir)
LoadPolicy(source, base_dir) ==
    /\ pc = "idle"
    /\ LET r == load_policy(source, factories, base_dir)
       IN  /\ ret' = [op |-> "load_policy", source |-> source, base_dir |-> base_dir,
                      spec |-> r.spec, raised |-> r.raised, msg |-> r.msg]
           /\ loaded' = IF r.raised = ""
                        THEN [spec |-> r.spec, registry |-> factories]
                        ELSE loaded
    /\ pc' = "returned"
    /\ UNCHANGED <<factories, ctx, engine>>
    /\ UNCHANGED <<kept, concurrent>>

\* engine.compile(spec) of the PolicySpec the caller holds
CompileLoaded ==
    /\ pc = "idle"
    /\ loaded # None
    /\ LET b == compile(loaded.spec, factories)
       IN  ret' = [op |-> "compile", spec |-> loaded.spec, policy |-> b.rule,
                   raised |-> b.raised, msg |-> b.msg]
    /\ pc' = "returned"
    /\ UNCHANGED <<factories, ctx, engine, loaded>>
    /\ UNCHANGED <<kept, concurrent>>

\* deep_get(obj, path, default)
DeepGet(obj, path, default) ==
    /\ pc = "idle"
    /\ ret' = [op |-> "deep_get", obj |-> obj, path |-> path, default |-> default,
               result |-> deep_get(obj, path, default)]
    /\ pc' = "returned"
    /\ UNCHANGED <<factories, ctx, engine, loaded>>
    /\ UNCHANGED <<kept, concurrent>>

\* PolicyEngine(strict=...)
NewEngine(strict) ==
    /\ pc = "idle"
    /\ engine' = [strict |-> strict]
    /\ UNCHANGED <<factories, ctx, ret, pc>>
    /\ UNCHANGED <<loaded, kept, concurrent>>

\* engine.evaluate(policy, input_data, strict=..., explain=...)
EngineCall(policy, input_data, strict, explain) ==
    /\ pc = "idle"
    /\ LET r == EngineEvaluate(engine.strict, factories, policy, input_data, strict, explain)
       IN  ret' = [op |-> "engine.evaluate", policy |-> policy, input |-> input_data,
                   strict |-> strict, explain |-> explain, raised |-> r.raised,
                   msg |-> r.msg, ran |-> r.ran, decision |-> r.decision, ctx |-> r.ctx]
    /\ pc' = "returned"
    /\ UNCHANGED <<factories, ctx, engine>>
    /\ UNCHANGED <<loaded, kept, concurrent>>

\* policy = engine.compile(spec) has returned a Policy; the caller keeps it
KeepCompiled ==
    /\ pc = "returned"
    /\ ret.op = "compile"
    /\ ret.raised = ""
    /\ kept' = [policy |-> ret.policy, spec |-> ret.spec, registry |-> factories]
    /\ pc' = "idle"
    /\ ret' = NoRet
    /\ UNCHANGED <<factories, ctx, engine, loaded>>
    /\ UNCHANGED concurrent

\* engine.evaluate(policy, ...) of the Policy the caller keeps
EvaluateKept(input_data, strict, explain) ==
    /\ kept # None
    /\ EngineCall(kept.policy, input_data, strict, explain)

\* engine.evaluate(spec, ...) of the PolicySpec the caller holds
EvaluateLoaded(input_data, strict, explain) ==
    /\ loaded # None
    /\ EngineCall(loaded.spec, input_data, strict, explain)

\* a reference to the n-th RuleRegistry object made
RegistryRef(n) == [t |-> "RuleRegistry", id |-> n]

\* The order in which register_builtin_rules registers the five types.
BuiltinOrder == <<"compare", "all", "any", "not", "truthy">>

\* thread t calls get_default_registry()
GetDefaultRegistry(t) ==
    /\ threads[t].pc = "idle"
    /\ threads' = [threads EXCEPT ![t] =
                       [op |-> "get_default_registry", pc |-> "test"]]
    /\ UNCHANGED <<default_registry, registries>>
    /\ UNCHANGED <<shared_policy, contexts>>
    /\ UNCHANGED sequential

\* if _default_registry is None:
TestDefault(t) ==
    /\ threads[t].pc = "test"
    /\ threads' = [threads EXCEPT ![t].pc = IF default_registry = None THEN "new" ELSE "return"]
    /\ UNCHANGED <<default_registry, registries>>
    /\ UNCHANGED <<shared_policy, contexts>>
    /\ UNCHANGED sequential

\* _default_registry = RuleRegistry()
NewDefault(t) ==
    /\ threads[t].pc = "new"
    /\ registries' = Append(registries, EmptyDict)
    /\ default_registry' = RegistryRef(Len(registries) + 1)
    /\ threads' = [threads EXCEPT ![t].pc = "load"]
    /\ UNCHANGED <<shared_policy, contexts>>
    /\ UNCHANGED sequential

\* register_builtin_rules(_default_registry): the argument is read from the global
LoadDefault(t) ==
    /\ threads[t].pc = "load"
    /\ threads' = [threads EXCEPT ![t] =
                       [op |-> @.op, pc |-> "register",
                        registry |-> default_registry, done |-> 0]]
    /\ UNCHANGED <<default_registry, registries>>
    /\ UNCHANGED <<shared_policy, contexts>>
    /\ UNCHANGED sequential

\* the next registry.register(...) of register_builtin_rules
RegisterBuiltin(t) ==
    /\ threads[t].pc = "register"
    /\ LET f == threads[t]
           type_name == BuiltinOrder[f.done + 1]
       IN  /\ registries' = [registries EXCEPT ![f.registry.id] =
                                 register(@, type_name, BuiltinFactories[type_name])]
           /\ threads' = [threads EXCEPT ![t] =
                              IF f.done + 1 = Len(BuiltinOrder)
                              THEN [op |-> f.op, pc |-> "return"]
                              ELSE [f EXCEPT !.done = @ + 1]]
    /\ UNCHANGED default_registry
    /\ UNCHANGED <<shared_policy, contexts>>
    /\ UNCHANGED sequential

\* return _default_registry
ReturnDefault(t) ==
    /\ threads[t].pc = "return"
    /\ threads' = [threads EXCEPT ![t] =
                       [op |-> @.op, pc |-> "returned",
                        result |-> default_registry]]
    /\ UNCHANGED <<default_registry, registries>>
    /\ UNCHANGED <<shared_policy, contexts>>
    /\ UNCHANGED sequential

\* the caller in thread t goes on, keeping nothing of the call
ThreadReturn(t) ==
    /\ threads[t].pc = "returned"
    /\ threads' = [threads EXCEPT ![t] = IdleFrame]
    /\ UNCHANGED <<default_registry, registries>>
    /\ UNCHANGED <<shared_policy, contexts>>
    /\ UNCHANGED sequential

\* the caller hands the threads a Policy that engine.compile returned
SharePolicy(policy) ==
    /\ \A t \in Threads : threads[t].pc = "idle"
    /\ shared_policy' = policy
    /\ UNCHANGED <<default_registry, registries, threads, contexts>>
    /\ UNCHANGED sequential

\* the frame of an evaluate call that has its context
Running(f) == f.op = "evaluate" /\ f.pc # "returned"

\* NewSlot taking the place of a context that is in use
SharedSlot(frames) == 1

\* The place in contexts that a new EvaluationContext object takes: one that no
\* call under way refers to.
NewSlot(frames) ==
    CHOOSE n \in 1..(MaxThreads + 1) :
        /\ \A t \in Threads : Running(frames[t]) => frames[t].ctx # n
        /\ \A m \in 1..(n - 1) : \E t \in Threads : Running(frames[t]) /\ frames[t].ctx = m

\* the contexts still referred to once the call of thread t is over
Collect(t) ==
    [n \in {threads[u].ctx : u \in {v \in Threads \ {t} : Running(threads[v])}}
        |-> contexts[n]]

\* thread t calls engine.evaluate(policy, input_data, strict=..., explain=...)
\* on the shared Policy: up to the loop
EvaluateBegin(t, input_data, strict, explain) ==
    /\ threads[t].pc = "idle"
    /\ shared_policy # None
    /\ LET slot == NewSlot(threads)
           strict_mode == IF PyFalsy(strict) THEN engine.strict ELSE strict.s
       IN  /\ contexts' = (slot :> EvaluationContext(input_data, strict_mode)) @@ contexts
           /\ threads' = [threads EXCEPT ![t] =
                  [op |-> "evaluate",
                   pc |-> IF shared_policy.rules = <<>> THEN "decide" ELSE "loop",
                   input |-> input_data, strict |-> strict, explain |-> explain,
                   ctx |-> slot, i |-> 1, matched |-> TRUE, details |-> <<>>]]
    /\ UNCHANGED <<default_registry, registries, shared_policy>>
    /\ UNCHANGED sequential

\* the frame after one pass of the loop in which evaluate gave o and explain e
PassFrame(f, o, e, last) ==
    IF e.raised # ""
    THEN [op |-> f.op, pc |-> "returned", input |-> f.input, strict |-> f.strict,
          explain |-> f.explain, raised |-> e.raised, msg |-> e.msg, decision |-> None]
    ELSE [f EXCEPT !.details = IF f.explain THEN Append(@, e.res) ELSE @,
                   !.matched = o.res,
                   !.i = @ + 1,
                   !.pc = IF ~o.res \/ last THEN "decide" ELSE "loop"]

\* the contexts after that pass
PassContexts(t, f, e) ==
    IF e.raised # "" THEN Collect(t) ELSE [contexts EXCEPT ![f.ctx] = e.ctx]

PassExplain(t, f, rule, o, last) ==
    /\ threads' = [threads EXCEPT ![t] =
           PassFrame(f, o, IF f.explain /\ o.raised = "" THEN Explain(rule, o.ctx) ELSE o, last)]
    /\ contexts' =
           PassContexts(t, f, IF f.explain /\ o.raised = "" THEN Explain(rule, o.ctx) ELSE o)

\* one pass of the loop of evaluate in thread t
EvaluatePass(t) ==
    /\ threads[t].pc = "loop"
    /\ PassExplain(t, threads[t], shared_policy.rules[threads[t].i],
                   Evaluate(shared_policy.rules[threads[t].i], contexts[threads[t].ctx]),
                   threads[t].i = Len(shared_policy.rules))
    /\ UNCHANGED <<default_registry, registries, shared_policy>>
    /\ UNCHANGED sequential

\* the rest of evaluate in thread t: the Decision
EvaluateDecide(t) ==
    /\ threads[t].pc = "decide"
    /\ LET f == threads[t]
           d == Decide(shared_policy,
                       [matched |-> f.matched, details |-> f.details, ran |-> f.i - 1,
                        raised |-> "", msg |-> <<>>, ctx |-> contexts[f.ctx]],
                       f.explain)
       IN  threads' = [threads EXCEPT ![t] =
               [op |-> f.op, pc |-> "returned", input |-> f.input, strict |-> f.strict,
                explain |-> f.explain, raised |-> "", msg |-> <<>>, decision |-> d.decision]]
    /\ contexts' = Collect(t)
    /\ UNCHANGED <<default_registry, registries, shared_policy>>
    /\ UNCHANGED sequential

RegistryNext ==
    \/ \E t \in TypeNames, f \in Factories : Register(t, f)
    \/ \E t \in TypeNames : Unregister(t)
    \/ RegisterBuiltinRules
    \/ \E s \in RuleSpecs : Create(s)
    \/ Return

RuleNext ==
    \/ \E i \in Inputs, m \in StrictModes : NewContext(i, m)
    \/ \E r \in RuleTrees : RuleEvaluate(r)
    \/ Return

EngineNext ==
    \/ \E m \in StrictModes : NewEngine(m)
    \/ RegisterBuiltinRules
    \/ \E p \in Policies \cup PolicySpecs \cup {NotAPolicy}, i \in Inputs,
          s \in StrictArgs, x \in BOOLEAN : EngineCall(p, i, s, x)
    \/ Return

CompareNext ==
    \/ RegisterBuiltinRules
    \/ \E s \in CompareSpecs : Create(s)
    \/ \E i \in Inputs, m \in StrictModes : NewContext(i, m)
    \/ EvaluateCreated
    \/ Return

UtilsNext ==
    \/ \E obj \in Roots, path \in Paths, default \in Defaults : DeepGet(obj, path, default)
    \/ Return

LoaderNext ==
    \/ RegisterBuiltinRules
    \/ \E t \in {"compare", "ghost"}, f \in Factories : Register(t, f)
    \/ \E t \in {"compare", "truthy"} : Unregister(t)
    \/ \E source \in LoadSources, base_dir \in BaseDirs : LoadPolicy(source, base_dir)
    \/ CompileLoaded
    \/ Return

KeptNext ==
    \/ RegisterBuiltinRules
    \/ \E t \in Replaced, f \in Factories : Register(t, f)
    \/ \E t \in Removed : Unregister(t)
    \/ \E source \in KeptSources : LoadPolicy(source, None)
    \/ CompileLoaded
    \/ KeepCompiled
    \/ \E i \in SharedInputs, s \in SharedStrict, x \in BOOLEAN : EvaluateKept(i, s, x)
    \/ \E i \in SharedInputs, s \in SharedStrict, x \in BOOLEAN : EvaluateLoaded(i, s, x)
    \/ Return

DefaultNext ==
    \E t \in Threads :
        \/ GetDefaultRegistry(t)
        \/ TestDefault(t)
        \/ NewDefault(t)
        \/ LoadDefault(t)
        \/ RegisterBuiltin(t)
        \/ ReturnDefault(t)
        \/ ThreadReturn(t)

SharedNext ==
    \/ \E p \in SharedPolicies : SharePolicy(p)
    \/ \E t \in Threads :
        \/ \E i \in SharedInputs, s \in SharedStrict, x \in BOOLEAN : EvaluateBegin(t, i, s, x)
        \/ EvaluatePass(t)
        \/ EvaluateDecide(t)
        \/ ThreadReturn(t)

Next ==
    \/ RegistryNext \/ RuleNext \/ EngineNext \/ CompareNext \/ UtilsNext \/ LoaderNext
    \/ KeptNext
    \/ DefaultNext \/ SharedNext

\* Every operation, in any order.  The registry, the caller's context and the
\* engine's default mode do not act on one another, so the claims are checked
\* under the specifications below, one per component.
Spec == Init /\ [][Next]_vars
\* the calls on one registry
SpecRegistry == Init /\ [][RegistryNext]_vars
\* a caller evaluating rules on contexts it makes
SpecRule == Init /\ [][RuleNext]_vars
\* a caller of one engine
SpecEngine == Init /\ [][EngineNext]_vars
\* a caller building compare rules from specs and evaluating them
SpecCompare == Init /\ [][CompareNext]_vars
\* a caller of deep_get
SpecUtils == Init /\ [][UtilsNext]_vars
\* a caller loading policies on a registry it changes, and compiling them
SpecLoader == Init /\ [][LoaderNext]_vars
\* a caller changing the registry while it holds a PolicySpec and a Policy
SpecKept == Init /\ [][KeptNext]_vars
\* threads evaluating one compiled Policy
SpecShared == Init /\ [][SharedNext]_vars
\* threads calling get_default_registry
SpecDefault == Init /\ [][DefaultNext]_vars

----------------------------------------------------------------------------
(* What a returned engine.evaluate call was made on *)

EngineReturned == ret.op = "engine.evaluate" /\ ret.raised = ""

\* the strict mode the call ran under: strict or self.strict
CallMode == IF PyFalsy(ret.strict) THEN engine.strict ELSE ret.strict.s

\* the rule objects the call ran over
CallRules ==
    IF ret.policy.kind = "Policy" THEN ret.policy.rules
    ELSE compile(ret.policy, factories).rule.rules

\* rule evaluates to true on input under mode, on a context of its own
HoldsOn(rule, input, mode) ==
    LET o == Evaluate(rule, EvaluationContext(input, mode))
    IN  o.raised = "" /\ o.res

\* the position of the first rule of rules that does not hold, Len(rules) if all hold
FirstFailing(rules, input, mode) ==
    LET failing == {i \in 1..Len(rules) : ~HoldsOn(rules[i], input, mode)}
    IN  IF failing = {} THEN Len(rules)
        ELSE CHOOSE i \in failing : \A j \in failing : i <= j

Resolved(input, path) == deep_get(input, path, None)

\* a Compare (op other than exists) or TruthyPath rule whose path resolves to null
MissesOn(rule, input) ==
    /\ rule.type_name \in {"compare", "truthy"}
    /\ rule.type_name = "compare" => rule.op # "exists"
    /\ Resolved(input, rule.path) = None

----------------------------------------------------------------------------
(* C1, C2, C3, C5: PolicyEngine.evaluate *)

\* C1: in every Decision returned by evaluate, allowed equals matched when the
\* policy's effect is "allow" and equals (not matched) when it is "deny", and
\* Decision.policy and Decision.effect are the policy's name and effect.
C1_EffectDecidesAllowed ==
    EngineReturned =>
        /\ ret.policy.effect = "allow" => ret.decision.allowed = ret.decision.matched
        /\ ret.policy.effect = "deny" => ret.decision.allowed = ~ret.decision.matched
        /\ ret.decision.policy = ret.policy.name
        /\ ret.decision.effect = ret.policy.effect

\* a deny policy whose rule matched: the decision is matched and not allowed
C1_Witness ==
    /\ EngineReturned
    /\ ret.policy.effect = "deny"
    /\ CallRules = <<cRole>>
    /\ ret.input = InAdmin
    /\ ret.decision.matched
    /\ ~ret.decision.allowed

\* C2: when evaluate returns, matched is true exactly when every top-level rule
\* evaluates to true on the input (so for no rules at all), and the loop has
\* called evaluate on the rules in order up to the first one that is false and
\* on none after it.
C2_MatchedIffAllRulesHold ==
    EngineReturned =>
        LET rules == CallRules
            holding == {i \in 1..Len(rules) : HoldsOn(rules[i], ret.input, CallMode)}
        IN  /\ ret.decision.matched = (holding = 1..Len(rules))
            /\ ret.ran = FirstFailing(rules, ret.input, CallMode)
            /\ \A i \in 1..(ret.ran - 1) : i \in holding

\* the first rule is false and the second would raise: the call returns
\* unmatched after one rule
C2_Witness ==
    /\ EngineReturned
    /\ CallRules = <<cRole, cAge>>
    /\ ret.input = InUser
    /\ Evaluate(cAge, EvaluationContext(InUser, CallMode)).raised # ""
    /\ ~ret.decision.matched
    /\ ret.ran = 1

\* C3: with explain=True the explanation's "rules" list holds one entry per
\* rule evaluated, in policy order, for the rules up to and including the first
\* one that is false (all of them if none is), and none for a later rule.
C3_ExplanationStopsAtFirstFalse ==
    (EngineReturned /\ ret.explain) =>
        LET rules == CallRules
            entries == ret.decision.explanation.rules
            last == FirstFailing(rules, ret.input, CallMode)
        IN  /\ Len(entries) = last
            /\ \A i \in 1..Len(entries) :
                /\ entries[i].type = rules[i].type_name
                /\ entries[i].result = HoldsOn(rules[i], ret.input, CallMode)
                /\ rules[i].type_name = "compare" => entries[i].path = rules[i].path

\* two rules, the first false: one entry, and it is the first rule's
C3_Witness ==
    /\ EngineReturned
    /\ ret.explain
    /\ Len(CallRules) = 2
    /\ Len(ret.decision.explanation.rules) = 1
    /\ ret.decision.explanation.rules[1].result = FALSE

\* the evaluations of Compare (op other than exists) and TruthyPath rules on a
\* null path that one evaluate of rule makes on input, children of all/any
\* being visited in order until the one that decides the result
RECURSIVE NullReads(_, _, _)
RECURSIVE NullReadsIn(_, _, _, _)
NullReadsIn(rules, input, mode, stopOn) ==
    IF rules = <<>> THEN 0
    ELSE NullReads(Head(rules), input, mode)
         + (IF HoldsOn(Head(rules), input, mode) = stopOn THEN 0
            ELSE NullReadsIn(Tail(rules), input, mode, stopOn))

NullReads(rule, input, mode) ==
    CASE rule.type_name \in {"compare", "truthy"} -> IF MissesOn(rule, input) THEN 1 ELSE 0
      [] rule.type_name = "not" -> NullReads(rule.rule, input, mode)
      [] rule.type_name = "all" -> NullReadsIn(rule.rules, input, mode, FALSE)
      [] rule.type_name = "any" -> NullReadsIn(rule.rules, input, mode, TRUE)

\* the same over the rules the loop of evaluate visits
NullReadsOfCall == NullReadsIn(CallRules, ret.input, CallMode, FALSE)

SnapshotMissing ==
    IF "missing" \in DOMAIN ret.decision.explanation.metrics
    THEN ret.decision.explanation.metrics["missing"] ELSE 0

\* C5 as stated: under "warn" the snapshot's "missing" counts each rule
\* evaluated on a null path once, and under "off" it is never incremented.
C5_MissingOncePerRule ==
    (EngineReturned /\ ret.explain) =>
        /\ CallMode = "warn" => SnapshotMissing = NullReadsOfCall
        /\ CallMode = "off" => "missing" \notin DOMAIN ret.decision.explanation.metrics

\* C5 as amended: "missing" is incremented once per evaluation of such a rule,
\* and a call with explain=True evaluates every rule it visits twice (evaluate,
\* then evaluate again inside explain), so under "warn" the snapshot's "missing"
\* is twice the number of such rules visited; under "off" it is never incremented.
C5_MissingOncePerEvaluation ==
    (EngineReturned /\ ret.explain) =>
        /\ CallMode = "warn" => SnapshotMissing = 2 * NullReadsOfCall
        /\ CallMode = "off" => "missing" \notin DOMAIN ret.decision.explanation.metrics

\* under "warn" one TruthyPath rule on a missing path: the snapshot shows 2
C5_Witness ==
    /\ EngineReturned
    /\ ret.explain
    /\ CallMode = "warn"
    /\ CallRules = <<tActive>>
    /\ ret.input = InEmpty
    /\ SnapshotMissing = 2

----------------------------------------------------------------------------
(* C4, C6, C7, C8, C9: Rule.evaluate *)

RuleReturned == ret.op = "evaluate"

\* the outcome the call recorded in ret, as Evaluate gives it
Recorded == [res |-> ret.res, raised |-> ret.raised, msg |-> ret.msg, ctx |-> ctx]

\* C4: a Compare rule (op other than exists) or a TruthyPath rule whose path
\* resolves to null raises an evaluation error under strict "raise" and returns
\* false without raising under "off" and "warn".
C4_MissingRaisesOnlyUnderRaise ==
    (RuleReturned /\ MissesOn(ret.rule, ret.pre.input)) =>
        /\ ret.pre.strict = "raise" =>
            /\ ret.raised = "RuleEvaluationError"
            /\ ret.msg = <<"Missing value at path", ret.rule.path>>
        /\ ret.pre.strict \in {"off", "warn"} => (ret.raised = "" /\ ret.res = FALSE)

\* a TruthyPath rule on a missing path under "raise" has raised
C4_Witness ==
    /\ RuleReturned
    /\ ret.rule = tActive
    /\ ret.pre.input = InEmpty
    /\ ret.pre.strict = "raise"
    /\ ret.raised = "RuleEvaluationError"

\* C6: under every strict mode a Compare rule with op "exists" never raises and
\* never increments "missing"; it returns true if the path resolves to a
\* non-null value and false otherwise.
C6_ExistsNeverRaises ==
    (RuleReturned /\ ret.rule.type_name = "compare" /\ ret.rule.op = "exists") =>
        /\ ret.raised = ""
        /\ Metric(ctx, "missing") = Metric(ret.pre, "missing")
        /\ ret.res = (Resolved(ret.pre.input, ret.rule.path) # None)

\* exists on a key that is present and null, under "raise": false, nothing raised
C6_Witness ==
    /\ RuleReturned
    /\ ret.rule = cExists
    /\ ret.pre.input = InNull
    /\ ret.pre.strict = "raise"
    /\ ret.res = FALSE
    /\ ret.raised = ""

\* the context the i-th of rules is evaluated on when those before it were
\* evaluated in order from c
RECURSIVE ContextBefore(_, _, _)
ContextBefore(rules, c, i) ==
    IF i = 1 THEN c
    ELSE Evaluate(rules[i - 1], ContextBefore(rules, c, i - 1)).ctx

ChildOutcome(rules, c, i) == Evaluate(rules[i], ContextBefore(rules, c, i))

\* the first child whose outcome, evaluated in order, is an exception or result
\* stop; 0 when there is none
Decider(rules, c, stop) ==
    LET ends == {i \in 1..Len(rules) :
                    LET o == ChildOutcome(rules, c, i) IN o.raised # "" \/ o.res = stop}
    IN  IF ends = {} THEN 0 ELSE CHOOSE i \in ends : \A j \in ends : i <= j

\* C7: AllRule.evaluate evaluates its children in list order, returns false at
\* the first child that is false, leaving the context as that child left it (no
\* later child is evaluated: none bumps a metric, none raises), and returns true
\* if every child is true, so for an empty list.
C7_AllShortCircuits ==
    (RuleReturned /\ ret.rule.type_name = "all") =>
        LET rules == ret.rule.rules
            k == Decider(rules, ret.pre, FALSE)
        IN  IF k = 0
            THEN Recorded = Returns(TRUE, ContextBefore(rules, ret.pre, Len(rules) + 1))
            ELSE LET o == ChildOutcome(rules, ret.pre, k)
                 IN  IF o.raised # "" THEN Recorded = o
                     ELSE Recorded = Returns(FALSE, o.ctx)

\* all of a false Compare and a Compare that would raise: false, nothing
\* raised, one rule evaluation counted
C7_Witness ==
    /\ RuleReturned
    /\ ret.rule = AllRule(<<cRole, cAge>>)
    /\ ret.pre.input = InUser
    /\ Evaluate(cAge, ret.pre).raised # ""
    /\ ret.raised = ""
    /\ ret.res = FALSE
    /\ Metric(ctx, "rule_eval") = Metric(ret.pre, "rule_eval") + 1

\* C8: AnyRule.evaluate evaluates its children in list order, returns true at
\* the first child that is true without evaluating a later one, and returns
\* false if every child is false, so for an empty list.
C8_AnyShortCircuits ==
    (RuleReturned /\ ret.rule.type_name = "any") =>
        LET rules == ret.rule.rules
            k == Decider(rules, ret.pre, TRUE)
        IN  IF k = 0
            THEN Recorded = Returns(FALSE, ContextBefore(rules, ret.pre, Len(rules) + 1))
            ELSE LET o == ChildOutcome(rules, ret.pre, k)
                 IN  IF o.raised # "" THEN Recorded = o
                     ELSE Recorded = Returns(TRUE, o.ctx)

\* any of a true TruthyPath and a Compare that would count itself and bump
\* "missing": true, and the context is as it was
C8_Witness ==
    /\ RuleReturned
    /\ ret.rule = AnyRule(<<tActive, cRole>>)
    /\ ret.pre.input = InNull
    /\ ret.pre.strict = "warn"
    /\ Metric(Evaluate(cRole, ret.pre).ctx, "missing") = Metric(ret.pre, "missing") + 1
    /\ ret.res = TRUE
    /\ ctx = ret.pre

\* C9: evaluating Not(Not(R)) gives the outcome of evaluating R on the same
\* context: the same result or the same error, and the same cache and metrics.
C9_DoubleNegation ==
    (RuleReturned /\ ret.rule.type_name = "not" /\ ret.rule.rule.type_name = "not") =>
        Recorded = Evaluate(ret.rule.rule.rule, ret.pre)

\* Not(Not(R)) of a Compare that raises on a missing path has raised that error
\* and counted the evaluation
C9_Witness ==
    /\ RuleReturned
    /\ ret.rule = NotRule(NotRule(cRole))
    /\ ret.pre.strict = "raise"
    /\ ret.raised = "RuleEvaluationError"
    /\ Metric(ctx, "rule_eval") = Metric(ret.pre, "rule_eval") + 1
    /\ CacheKey("user.role") \in DOMAIN ctx.cache

----------------------------------------------------------------------------
(* C10: RuleRegistry *)

\* C10: after any sequence of register, unregister and create calls the
\* registry's mapping has no entry whose key is the empty string.
C10_NoEmptyTypeName == "" \notin DOMAIN factories

----------------------------------------------------------------------------
(* C11, C13: RuleRegistry.create *)

CreateReturned == ret.op = "create"

\* spec is a dict whose "type" is a non-empty str
WellTyped(spec) ==
    /\ spec.t = "map"
    /\ DictGet(spec, "type").t = "str"
    /\ DictGet(spec, "type").s # ""

\* C11: create on a dict spec whose type is a non-empty string with no factory
\* registered at the time of the call (never registered, or unregistered since)
\* raises UnknownRuleError carrying the type name; a spec that is not a dict, or
\* whose type is missing, empty or not a string, raises RuleSyntaxError; and a
\* create that raises leaves the registry's mapping as it was.
C11_CreateFailures ==
    CreateReturned =>
        /\ ~WellTyped(ret.spec) => ret.raised = "RuleSyntaxError"
        /\ (WellTyped(ret.spec) /\ DictGet(ret.spec, "type").s \notin DOMAIN ret.pre) =>
               /\ ret.raised = "UnknownRuleError"
               /\ ret.msg = <<DictGet(ret.spec, "type").s>>
        /\ ret.raised # "" => factories = ret.pre

\* "compare" was registered with the built-ins and unregistered since: create
\* of a compare spec raises the unknown-rule-type error naming "compare"
C11_Witness ==
    /\ CreateReturned
    /\ ret.spec = sCompare
    /\ "all" \in DOMAIN factories
    /\ "compare" \notin DOMAIN factories
    /\ ret.raised = "UnknownRuleError"
    /\ ret.msg = <<"compare">>

\* the call reached the built-in _all or _any factory
CompositeCreated ==
    /\ CreateReturned
    /\ WellTyped(ret.spec)
    /\ DictGet(ret.spec, "type").s \in {"all", "any"}
    /\ DictGet(ret.spec, "type").s \in DOMAIN ret.pre
    /\ ret.pre[DictGet(ret.spec, "type").s] \in {"_all", "_any"}

\* C13: the built-in "all" and "any" factories build a composite with no
\* children when the spec has no "rules" field, and raise RuleSyntaxError
\* whenever the "rules" field is present and is not a list.
C13_CompositeRulesField ==
    CompositeCreated =>
        /\ "rules" \notin DOMAIN ret.spec.m =>
               /\ ret.raised = ""
               /\ ret.rule = [type_name |-> DictGet(ret.spec, "type").s, rules |-> <<>>]
        /\ ("rules" \in DOMAIN ret.spec.m /\ ret.spec.m["rules"].t # "list") =>
               ret.raised = "RuleSyntaxError"

----------------------------------------------------------------------------
(* C12: get_default_registry *)

DefaultReturned(t) == threads[t].op = "get_default_registry" /\ threads[t].pc = "returned"

\* C12: in any interleaving of get_default_registry calls at most one
\* RuleRegistry is made, the calls that have returned hold the same instance,
\* and an instance handed to a caller has the five built-in types registered.
C12_DefaultRegistryOnce ==
    /\ Len(registries) <= 1
    /\ \A t \in Threads, u \in Threads :
           (DefaultReturned(t) /\ DefaultReturned(u)) => threads[t].result = threads[u].result
    /\ \A t \in Threads :
           DefaultReturned(t) =>
               {"compare", "all", "any", "not", "truthy"} \subseteq DOMAIN registries[threads[t].result.id]

----------------------------------------------------------------------------
(* C14: the op of a Compare rule *)

\* create ran parse_compare_rule on a spec whose path and op are non-empty str
CompareCreated ==
    /\ CreateReturned
    /\ WellTyped(ret.spec)
    /\ DictGet(ret.spec, "type").s \in DOMAIN ret.pre
    /\ ret.pre[DictGet(ret.spec, "type").s] = "parse_compare_rule"
    /\ DictGet(ret.spec, "path").t = "str" /\ DictGet(ret.spec, "path").s # ""
    /\ DictGet(ret.spec, "op").t = "str" /\ DictGet(ret.spec, "op").s # ""

\* evaluate ran on a Compare rule whose op is none of the nine
UnknownOpEvaluated ==
    /\ RuleReturned
    /\ ret.rule.type_name = "compare"
    /\ ret.rule.op \notin CompareOps

UnknownOpError ==
    /\ ret.raised = "RuleEvaluationError"
    /\ ret.msg = <<"Unknown compare op", ret.rule.op>>

\* a compare spec with a non-empty str op, whatever the op, is built into a
\* Compare rule carrying that op
AnyOpAccepted ==
    CompareCreated =>
        /\ ret.raised = ""
        /\ ret.rule.type_name = "compare"
        /\ ret.rule.op = DictGet(ret.spec, "op").s

\* C14 as stated: any non-empty str op is accepted at construction, and every
\* evaluation of a Compare rule whose op is none of the nine raises the
\* evaluation error naming the unknown operator.
C14_UnknownOpAlwaysRaises ==
    /\ AnyOpAccepted
    /\ UnknownOpEvaluated => UnknownOpError

\* C14 as amended: any non-empty str op is accepted at construction; an
\* evaluation of a Compare rule whose op is none of the nine raises the error
\* naming the unknown operator when the path resolves to a non-null value, and
\* when it resolves to null the rule is treated as any rule on a missing path:
\* the missing-path error under "raise", false under "off" and "warn".
C14_UnknownOpRaisesOnPresentValue ==
    /\ AnyOpAccepted
    /\ UnknownOpEvaluated =>
           IF Resolved(ret.pre.input, ret.rule.path) # None
           THEN UnknownOpError
           ELSE IF ret.pre.strict = "raise"
           THEN /\ ret.raised = "RuleEvaluationError"
                /\ ret.msg = <<"Missing value at path", ret.rule.path>>
           ELSE ret.raised = "" /\ ret.res = FALSE

\* a rule built from a spec with op "matches" and evaluated on an input where
\* its path has a value raised the unknown-operator error
C14_Witness ==
    /\ UnknownOpEvaluated
    /\ ret.rule.op = "matches"
    /\ ret.pre.input = InAdmin
    /\ Resolved(ret.pre.input, ret.rule.path) = JStr("b")
    /\ UnknownOpError

----------------------------------------------------------------------------
(* C15, C16: load_policy *)

LoadReturned == ret.op = "load_policy"

\* the policy data a source gives without reading a file: the dict itself, or
\* what a JSON text denotes; None for any other source
DataOf(source) ==
    IF source.t = "map" THEN source
    ELSE IF source.t = "str" /\ StartsWithBrace(source.s)
                             /\ json_loads(source.s) # JSONDecodeError
    THEN json_loads(source.s)
    ELSE None

\* the name is missing or is not a non-empty str
BadName(data) == DictGet(data, "name").t # "str" \/ DictGet(data, "name").s = ""

\* the effect is present and is neither "allow" nor "deny"
BadEffect(data) ==
    /\ "effect" \in DOMAIN data.m
    /\ data.m["effect"] \notin {JStr("allow"), JStr("deny")}

\* C15: load_policy raises PolicyLoadError whenever the source's name is
\* missing or is not a non-empty string, or its effect is present and is not
\* "allow" or "deny"; and every PolicySpec it returns has a non-empty string
\* name, an effect that is "allow" or "deny" ("allow" when the source has
\* none) and a list of rules.
C15_LoadValidatesNameAndEffect ==
    LoadReturned =>
        /\ (DataOf(ret.source) # None /\ (BadName(DataOf(ret.source)) \/ BadEffect(DataOf(ret.source))))
               => ret.raised = "PolicyLoadError"
        /\ ret.raised = "" =>
               /\ ret.spec.name # ""
               /\ ret.spec.effect \in {"allow", "deny"}
               /\ (DataOf(ret.source) # None /\ "effect" \notin DOMAIN DataOf(ret.source).m)
                      => ret.spec.effect = "allow"
               /\ DOMAIN ret.spec.rules = 1..Len(ret.spec.rules)

CompileReturned == ret.op = "compile"

\* C16: load_policy returns a PolicySpec only if registry.create succeeds on
\* every rule spec of the policy, and compiling the PolicySpec the caller holds
\* on a registry whose mapping is the one it was loaded on does not raise.
C16_LoadedSpecCompiles ==
    /\ (LoadReturned /\ ret.raised = "") =>
           \A i \in 1..Len(ret.spec.rules) : create(ret.spec.rules[i], factories).raised = ""
    /\ (CompileReturned /\ loaded.registry = factories) =>
           /\ ret.raised = ""
           /\ Len(ret.policy.rules) = Len(ret.spec.rules)

\* a policy of a not and an all rule, loaded on the built-ins and compiled on
\* them: two rules built
C16_Witness ==
    /\ CompileReturned
    /\ loaded.registry = factories
    /\ ret.spec.rules = <<sNot, sAll>>
    /\ ret.raised = ""
    /\ ret.policy.rules = <<NotRule(tActive), AllRule(<<cRole, tActive>>)>>

----------------------------------------------------------------------------
(* C17: evaluate calls on one shared Policy *)

EvaluateReturned(t) == threads[t].op = "evaluate" /\ threads[t].pc = "returned"

\* what the call of thread t gives when it is the only call there is
Alone(t) ==
    EngineEvaluate(engine.strict, factories, shared_policy,
                   threads[t].input, threads[t].strict, threads[t].explain)

\* C17: every evaluate call on the shared Policy, however the calls of the
\* threads interleave, returns the Decision (metrics snapshot included) or
\* raises the error it gives when it is the only call; the calls under way
\* have each a context of their own, and no context outlives its call.
C17_SharedPolicyCallsIndependent ==
    /\ \A t \in Threads :
           EvaluateReturned(t) =>
               /\ threads[t].raised = Alone(t).raised
               /\ threads[t].msg = Alone(t).msg
               /\ threads[t].decision = Alone(t).decision
    /\ \A t \in Threads, u \in Threads :
           (t # u /\ Running(threads[t]) /\ Running(threads[u]))
               => threads[t].ctx # threads[u].ctx
    /\ (\A t \in Threads : threads[t].pc \in {"idle", "returned"}) => contexts = <<>>

\* two calls on the same input under "warn" with explain, one returned while
\* the other is in its loop with "missing" counted: the snapshot of the one
\* returned shows its own two evaluations only
C17_Witness ==
    \E t \in Threads, u \in Threads :
        /\ EvaluateReturned(t)
        /\ threads[t].explain
        /\ threads[t].input = InNull
        /\ threads[t].raised = ""
        /\ threads[t].decision.explanation.metrics = ("rule_eval" :> 2) @@ ("missing" :> 2)
        /\ Running(threads[u])
        /\ threads[u].pc = "decide"
        /\ threads[u].input = InNull
        /\ Metric(contexts[threads[u].ctx], "missing") = 2

----------------------------------------------------------------------------
(* C18: the path cache of Compare rules *)

\* the evaluate call made a context and ran rules on it
EngineRan == ret.op = "engine.evaluate" /\ ret.ctx # None

\* C18: in one evaluation, however many Compare rules read a path, deep_get is
\* called for that path once: the first read stores the value in ctx.cache
\* under "path:"+path, a later read takes it from there, and the cached value
\* is deep_get(ctx.input, path).
C18_OneLookupPerPath ==
    EngineRan =>
        /\ \A path \in DOMAIN ret.ctx.lookups : ret.ctx.lookups[path] = 1
        /\ \A path \in Paths :
               CacheKey(path) \in DOMAIN ret.ctx.cache =>
                   /\ path \in DOMAIN ret.ctx.lookups
                   /\ ret.ctx.cache[CacheKey(path)] = deep_get(ret.ctx.input, path, None)

----------------------------------------------------------------------------
(* C19: deep_get *)

DeepGetReturned == ret.op = "deep_get"

\* the non-empty segments of path between its dots, left to right
Segments(path) == SelectSeq(PathText[path], LAMBDA piece : piece # ".")

Unresolved == [t |-> "unresolved"]

\* the value reached from root through the first k of segs: for a map the
\* value under the segment as a key, for a sequence of length n the element at
\* the integer i the segment denotes, -n <= i < n, counted from the end when i
\* is negative; Unresolved once a segment leads nowhere
RECURSIVE Reached(_, _, _)
Reached(root, segs, k) ==
    IF k = 0 THEN root
    ELSE LET cur == Reached(root, segs, k - 1)
             seg == segs[k]
         IN  IF cur = Unresolved THEN Unresolved
             ELSE IF cur.t = "map"
             THEN IF seg \in DOMAIN cur.m THEN cur.m[seg] ELSE Unresolved
             ELSE IF cur.t = "list"
             THEN IF seg \notin DOMAIN IntLiteral THEN Unresolved
                  ELSE IF IntLiteral[seg] >= 0 /\ IntLiteral[seg] < Len(cur.items)
                  THEN cur.items[IntLiteral[seg] + 1]
                  ELSE IF IntLiteral[seg] < 0 /\ -Len(cur.items) <= IntLiteral[seg]
                  THEN cur.items[Len(cur.items) + 1 + IntLiteral[seg]]
                  ELSE Unresolved
             ELSE Unresolved

\* C19: deep_get(root, path, default) resolves the non-empty segments of path
\* left to right, by key on a map and by index i, -n <= i < n, on a sequence of
\* length n (-1 the last element); it returns default when a key is missing, an
\* index is not a number or out of range, or the value is neither map nor
\* sequence; empty segments are skipped, and a path with no non-empty segment
\* returns root.
C19_DeepGetResolves ==
    DeepGetReturned =>
        LET segs == Segments(ret.path)
            end == Reached(ret.obj, segs, Len(segs))
        IN  /\ ret.result = IF end = Unresolved THEN ret.default ELSE end
            /\ segs = <<>> => ret.result = ret.obj

\* deep_get({"items": [10, 20]}, "items.-1", 42) gave 20
C19_Witness ==
    /\ DeepGetReturned
    /\ ret.obj = JMap("items" :> JList(<<JInt(10), JInt(20)>>))
    /\ ret.path = "items.-1"
    /\ ret.default = JInt(42)
    /\ ret.result = JInt(20)

----------------------------------------------------------------------------
(* C20: explain=True against explain=False *)

\* the outcome r of a call and the outcome other of the same call with the
\* other value of explain are the same error, or the same allowed and matched
SameOutcome(r, other) ==
    /\ r.raised = other.raised
    /\ r.msg = other.msg
    /\ r.raised = "" =>
           /\ r.decision.allowed = other.decision.allowed
           /\ r.decision.matched = other.decision.matched

\* the entries of an explanation carry the results evaluate returned in the
\* loop: true for every rule but the last visited, matched for that one
EntriesCarryResults(decision) ==
    LET entries == decision.explanation.rules
    IN  /\ \A i \in 1..(Len(entries) - 1) : entries[i].result = TRUE
        /\ entries # <<>> => entries[Len(entries)].result = decision.matched

\* C20: for a policy of built-in rules, any input and any strict mode,
\* evaluate with explain=True and with explain=False give the same allowed and
\* matched, or raise the same evaluation error; and each entry of the
\* explanation has the result the rule's evaluate returned in that call.
C20_ExplainSameOutcome ==
    (ret.op = "engine.evaluate" /\ ret.policy.kind \in {"Policy", "PolicySpec"}) =>
        /\ SameOutcome(ret, EngineEvaluate(engine.strict, factories, ret.policy, ret.input,
                                           ret.strict, ~ret.explain))
        /\ (ret.raised = "" /\ ret.explain) => EntriesCarryResults(ret.decision)

\* under "warn" with explain, a true TruthyPath then a Compare on a null path:
\* "missing" is counted twice, the entries are true and false, and the call
\* without explain gives unmatched too
C20_Witness ==
    /\ EngineReturned
    /\ ret.explain
    /\ CallMode = "warn"
    /\ ret.input = InNull
    /\ CallRules = <<tActive, cRole>>
    /\ SnapshotMissing = 2
    /\ ret.decision.explanation.rules[1].result = TRUE
    /\ ret.decision.explanation.rules[2].result = FALSE
    /\ ~ret.decision.matched
    /\ ~EngineEvaluate(engine.strict, factories, ret.policy, ret.input, ret.strict,
                       FALSE).decision.matched

----------------------------------------------------------------------------
(* C21: the registry changing under a compiled Policy and under a PolicySpec *)

\* the type names of a rule spec and of the rule specs nested in it
RECURSIVE TypesOf(_)
TypesOf(spec) ==
    IF spec.t # "map" THEN {}
    ELSE LET type_name == DictGet(spec, "type")
             rules == DictGet(spec, "rules")
         IN  (IF type_name.t = "str" THEN {type_name.s} ELSE {})
             \cup (IF rules.t = "list"
                   THEN UNION {TypesOf(rules.items[i]) : i \in 1..Len(rules.items)}
                   ELSE {})
             \cup TypesOf(DictGet(spec, "rule"))

\* the rule types of a PolicySpec
SpecTypes(spec) == UNION {TypesOf(spec.rules[i]) : i \in 1..Len(spec.rules)}

\* the returned call evaluated the Policy the caller keeps
KeptEvaluated == ret.op = "engine.evaluate" /\ kept # None /\ ret.policy = kept.policy

\* the returned call evaluated the PolicySpec the caller holds
SpecEvaluated == ret.op = "engine.evaluate" /\ loaded # None /\ ret.policy = loaded.spec

\* what an evaluate call gave its caller
Outcome(r) == <<r.raised, r.msg, r.decision>>

\* the rule types of the held PolicySpec the registry has no factory for
Missing == SpecTypes(loaded.spec) \ DOMAIN factories

\* the rule types of the held PolicySpec that are registered have the factory
\* they had when it was loaded
OthersAsLoaded ==
    \A k \in SpecTypes(loaded.spec) \cap DOMAIN factories :
        k \in DOMAIN loaded.registry /\ factories[k] = loaded.registry[k]

\* evaluating the kept Policy gives what evaluating its PolicySpec gave on the
\* registry as it was when compile returned, whatever the registry holds now
KeptUnchanged ==
    KeptEvaluated =>
        Outcome(ret) = Outcome(EngineEvaluate(engine.strict, kept.registry, kept.spec,
                                              ret.input, ret.strict, ret.explain))

\* evaluating the held PolicySpec gives what compiling it on the registry's
\* current mapping and evaluating the result gives
Recompiled ==
    SpecEvaluated =>
        LET b == compile(loaded.spec, factories)
        IN  IF b.raised # ""
            THEN Outcome(ret) = <<b.raised, b.msg, None>>
            ELSE Outcome(ret) = Outcome(EngineEvaluate(engine.strict, factories, b.rule,
                                                       ret.input, ret.strict, ret.explain))

\* C21 as stated: once compile has returned a Policy, register and unregister
\* leave its evaluation results unchanged; evaluating a PolicySpec recompiles it
\* on the registry's current contents, and fails with UnknownRuleError whenever
\* one of its rule types is no longer registered.
C21_UnregisteredTypeAlwaysUnknownRule ==
    /\ KeptUnchanged
    /\ Recompiled
    /\ (SpecEvaluated /\ Missing # {}) => ret.raised = "UnknownRuleError"

\* C21: once compile has returned a Policy, register and unregister leave its
\* evaluation results unchanged; evaluating a PolicySpec recompiles it on the
\* registry's current contents, and fails with UnknownRuleError naming an
\* unregistered type whenever one of its rule types is no longer registered and
\* its other rule types have the factories they had when it was loaded.
C21_CompiledFrozenSpecRecompiled ==
    /\ KeptUnchanged
    /\ Recompiled
    /\ (SpecEvaluated /\ Missing # {} /\ OthersAsLoaded) =>
           /\ ret.raised = "UnknownRuleError"
           /\ ret.msg[1] \in Missing

\* the caller compiled a policy of a truthy and a compare rule and kept the
\* Policy, the truthy type was unregistered, and evaluating the PolicySpec
\* fails on it
C21_Witness ==
    /\ SpecEvaluated
    /\ kept # None
    /\ kept.spec = loaded.spec
    /\ kept.registry # factories
    /\ loaded.spec.rules = <<sTruthy, sCompare>>
    /\ Missing = {"truthy"}
    /\ OthersAsLoaded
    /\ ret.raised = "UnknownRuleError"
    /\ ret.msg = <<"truthy">>

====
